---- MODULE Spec2Model ----
(***************************************************************************)
(* A model of plot.py: the helpers mid, circles and compare.               *)
(*                                                                         *)
(* One behaviour is one call of circles or of compare.  Init is the state  *)
(* at entry of the call (the arguments), every action is one block of the  *)
(* function body, in source order, and pc names the block to run next.     *)
(*                                                                         *)
(* Numbers.  Array elements are integers; NaN is the one value for which   *)
(* every comparison is false.  Two results of the code are fractions and   *)
(* are kept exactly, in fixed units:                                       *)
(*   - bin midpoints (line 119, and mid) in halves:      w0[i] = 2 * value *)
(*   - percentiles (lines 114-118) in thousandths:    zs[r][i] = 1000 * v  *)
(* Python indices start at 0, the model's at 1: row r of the code's zs is  *)
(* zs[r+1] here and bin i of the code is column i+1.                        *)
(* x, y and the bin edges of compare are numpy arrays (the code indexes    *)
(* them with masks and adds them elementwise).                             *)
(***************************************************************************)
EXTENDS Integers, Sequences, FiniteSets, TLC

VARIABLES
    fn,            \* the function called: "compare" or "circles"
    pc,            \* the block of the function body to run next
    err,           \* the exception that ended the call, or "none"
    ret,           \* the returned value, None until the call returns
    ax,            \* the drawing surface: the sequence of artists added to it
    \* ---- arguments
    x, y,          \* both functions
    xbins, ybins,  \* compare
    nan,           \* compare: the fill value, or None
    ls,            \* compare: the style list, or None; rebound at line 134
    line, point, fill, legend,   \* compare: rendering flags
    deco,          \* compare: xlabel, ylabel, xref, yref, xlim, ylim
    s, c, vmin, vmax, kwargs,    \* circles
    \* ---- locals of compare
    w, z, bins, nbins, zs, idx, i, zc, nc, w0, xs, ys, fill_between,
    sels,          \* history: the mask of line 111 in each iteration
    ncs,           \* history: the value of nc in each iteration
    \* ---- locals of circles
    color, patches, collection

vars == <<fn, pc, err, ret, ax, x, y, xbins, ybins, nan, ls, line, point, fill,
          legend, deco, s, c, vmin, vmax, kwargs, w, z, bins, nbins, zs, idx, i,
          zc, nc, w0, xs, ys, fill_between, sels, ncs, color, patches,
          collection>>

cmpLocals == <<w, z, bins, nbins, zs, idx, i, zc, nc, w0, xs, ys,
               fill_between, sels, ncs>>
cmpArgs == <<x, y, xbins, ybins, nan, line, point, fill, legend, deco>>
circArgs == <<s, c, vmin, vmax>>
circVars == <<circArgs, kwargs, color, patches, collection>>

----------------------------------------------------------------------------
(* Values *)

\* Python's None and a present optional value: None is the empty tuple and a
\* value v that is present is <<v>>.
None == << >>
Some(v) == <<v>>
Val(o) == o[1]

\* np.nan, as an array element.
NaN == -1000000

isnan(v) == v = NaN
Lt(a, b) == ~isnan(a) /\ ~isnan(b) /\ a < b
Gt(a, b) == Lt(b, a)

Range(f) == {f[k] : k \in DOMAIN f}

----------------------------------------------------------------------------
(* numpy *)

\* a[m]: the elements of a at which the boolean mask m is true, in order
\* (the part of the answer from lo to hi, by halves).
RECURSIVE MaskRange(_, _, _, _)
MaskRange(a, m, lo, hi) ==
    IF lo > hi THEN << >>
    ELSE IF lo = hi THEN (IF m[lo] THEN <<a[lo]>> ELSE << >>)
    ELSE MaskRange(a, m, lo, (lo + hi) \div 2)
            \o MaskRange(a, m, (lo + hi) \div 2 + 1, hi)
MaskIndex(a, m) == MaskRange(a, m, 1, Len(a))

\* astype('f'): the nearest single-precision number, ties to even.  Integers
\* below 2^24 in magnitude are exact; above, the spacing doubles with every
\* power of two.
F32Mantissa == 16777216
RECURSIVE Ulp(_, _)
Ulp(a, u) == IF a < F32Mantissa * u THEN u ELSE Ulp(a, 2 * u)
RoundF32(a) ==
    LET u == Ulp(a, 1)
        q == a \div u
        r == a % u
    IN  IF 2 * r < u THEN q * u
        ELSE IF 2 * r > u THEN (q + 1) * u
        ELSE IF q % 2 = 0 THEN q * u ELSE (q + 1) * u
astype_f(v) ==
    IF isnan(v) THEN NaN
    ELSE IF v < 0 THEN 0 - RoundF32(0 - v) ELSE RoundF32(v)

\* The k-th smallest element of a (k from 1): a sorted copy's element k-1.
KthSmallest(a, k) ==
    CHOOSE v \in Range(a) :
        /\ Cardinality({j \in DOMAIN a : a[j] < v}) < k
        /\ Cardinality({j \in DOMAIN a : a[j] <= v}) >= k

\* np.percentile(a, q) with q = p/10 percent, linear interpolation between
\* the two nearest order statistics; the result in thousandths.
Percentile(a, p) ==
    IF \E j \in DOMAIN a : isnan(a[j]) THEN NaN
    ELSE
    LET pos == (Len(a) - 1) * p
        lo == pos \div 1000
        fr == pos % 1000
        lower == KthSmallest(a, lo + 1)
    IN  IF fr = 0 THEN 1000 * lower
        ELSE 1000 * lower + fr * (KthSmallest(a, lo + 2) - lower)

\* ps = [50, 15.8, 84.2, 2.3, 97.7], in tenths of a percent.
ps == <<500, 158, 842, 23, 977>>

\* The thresholds of nc at lines 113, 115 and 117.
NcAll == 120
NcInner == 20
NcMedian == 8

\* (bins[:-1] + bins[1:])/2. at line 119 (the body of mid as well): in
\* halves.
Midpoints(b) == [k \in 1 .. Len(b) - 1 |-> b[k] + b[k + 1]]

----------------------------------------------------------------------------
(* matplotlib: what the calls leave on the drawing surface *)

\* One call on the surface.  fmt is a style string as its characters.
Artist(op, a, b, fmt, label, clr, alpha) ==
    [op |-> op, a |-> a, b |-> b, fmt |-> fmt, label |-> label,
     color |-> clr, alpha |-> alpha]
Call(op, arg) == Artist(op, arg, None, None, None, None, None)
Opt(o, op) == IF o = None THEN << >> ELSE <<Call(op, Val(o))>>

\* ['k-', 'b--', 'g:'] at line 134.
DefaultStyles == << <<"k", "-">>, <<"b", "-", "-">>, <<"g", ":">> >>

\* Python's truth value of a list or None (the test "ls if ls" at line 134).
Truthy(o) == o # None /\ Len(Val(o)) > 0

----------------------------------------------------------------------------
(* compare, lines 86-163 *)

\* np.full((5, nbins), np.nan)
full(rows, cols, v) == [r \in 1 .. rows |-> [k \in 1 .. cols |-> v]]

\* Lines 92-103: the predictor w, the value variable z and the bin edges.
\* xbins is tested first; with neither given line 97 calls linspace, a name
\* the module never binds (it imports numpy as np only), and the lookup
\* raises before np.nanmin is evaluated.
PredictorYFirst ==
    IF ybins # None THEN "y" ELSE IF xbins # None THEN "x" ELSE "default"
Predictor ==
    IF xbins # None THEN "x" ELSE IF ybins # None THEN "y" ELSE "default"

Select ==
    /\ fn = "compare" /\ pc = "select"
    /\ IF Predictor = "x"
         THEN /\ w' = x /\ z' = y /\ bins' = Val(xbins)
              /\ nbins' = Len(Val(xbins)) - 1
              /\ zs' = full(5, Len(Val(xbins)) - 1, NaN)
              /\ pc' = "nan" /\ err' = err
       ELSE IF Predictor = "y"
         THEN /\ w' = y /\ z' = x /\ bins' = Val(ybins)
              /\ nbins' = Len(Val(ybins)) - 1
              /\ zs' = full(5, Len(Val(ybins)) - 1, NaN)
              /\ pc' = "nan" /\ err' = err
       ELSE /\ err' = "NameError" /\ pc' = "raised"
            /\ UNCHANGED <<w, z, bins, nbins, zs>>
    /\ UNCHANGED <<fn, ret, ax, cmpArgs, ls, circVars,
                   idx, i, zc, nc, w0, xs, ys, fill_between, sels, ncs>>

\* Lines 104-109: idx marks the NaN of z; without a fill value they are
\* dropped from z and w alike, with one z is copied as single precision and
\* the fill value stored at idx.
DropNaNKeepsMarked(a, m) == MaskIndex(a, m)
DropNaN(a, m) == MaskIndex(a, [k \in DOMAIN m |-> ~m[k]])
FillNaN(a, m, v) ==
    [k \in DOMAIN a |-> IF m[k] THEN astype_f(v) ELSE astype_f(a[k])]
HandleNaN ==
    /\ fn = "compare" /\ pc = "nan"
    /\ idx' = [k \in DOMAIN z |-> isnan(z[k])]
    /\ IF nan = None
         THEN /\ z' = DropNaN(z, idx')
              /\ w' = DropNaN(w, idx')
         ELSE /\ z' = FillNaN(z, idx', Val(nan))
              /\ w' = w
    /\ i' = 1
    /\ pc' = "loop"
    /\ UNCHANGED <<fn, err, ret, ax, cmpArgs, ls, circVars,
                   bins, nbins, zs, zc, nc, w0, xs, ys, fill_between, sels,
                   ncs>>

\* Line 111: (w > bins[i]) * (w < bins[i+1]), the product of two boolean
\* arrays.
Geq(a, b) == ~isnan(a) /\ ~isnan(b) /\ a >= b
InBinClosedLeft(a, lo, hi) == [k \in DOMAIN a |-> Geq(a[k], lo) /\ Lt(a[k], hi)]
InBin(a, lo, hi) == [k \in DOMAIN a |-> Gt(a[k], lo) /\ Lt(a[k], hi)]

\* Lines 113-118: how many of the five percentiles a bin of nc values gets.
RowsForStrict(n) ==
    IF n > NcAll THEN 5
    ELSE IF n > NcInner THEN 3
    ELSE IF n > NcMedian THEN 1
    ELSE 0
RowsFor(n) ==
    IF n >= NcAll THEN 5
    ELSE IF n >= NcInner THEN 3
    ELSE IF n >= NcMedian THEN 1
    ELSE 0

\* zs[:rows, col] = np.percentile(a, ps[:rows])
SetColumn(t, col, rows, a) ==
    [r \in DOMAIN t |->
        IF r <= rows THEN [t[r] EXCEPT ![col] = Percentile(a, ps[r])]
        ELSE t[r]]

\* Lines 110-118: one iteration of the loop over the bins.
BinStep ==
    /\ fn = "compare" /\ pc = "loop" /\ i <= nbins
    /\ sels' = Append(sels, InBin(w, bins[i], bins[i + 1]))
    /\ zc' = MaskIndex(z, sels'[i])
    /\ nc' = Len(zc')
    /\ zs' = SetColumn(zs, i, RowsFor(nc'), zc')
    /\ ncs' = Append(ncs, nc')
    /\ i' = i + 1
    /\ UNCHANGED <<fn, pc, err, ret, ax, cmpArgs, ls, circVars,
                   w, z, bins, nbins, idx, w0, xs, ys, fill_between>>

\* Lines 119-131: the midpoints, and which axis carries them.  The test is
\* on xbins again, so the table goes on the y axis whenever xbins was given.
\* Lines 121-124 make the surface passed, or the current one, the target:
\* ax is that surface either way.
Orient ==
    /\ fn = "compare" /\ pc = "loop" /\ i > nbins
    /\ w0' = Midpoints(bins)
    /\ IF xbins # None
         THEN /\ xs' = [k \in 1 .. 5 |-> w0'] /\ ys' = zs
              /\ fill_between' = "fill_between"
         ELSE /\ xs' = zs /\ ys' = [k \in 1 .. 5 |-> w0']
              /\ fill_between' = "fill_betweenx"
    /\ pc' = "line"
    /\ UNCHANGED <<fn, err, ret, ax, cmpArgs, ls, circVars,
                   w, z, bins, nbins, zs, idx, i, zc, nc, sels, ncs>>

Label(text) == IF legend THEN Some(text) ELSE None

\* Lines 133-139: the five curves; ls is rebound to the styles in use.
Line ==
    /\ fn = "compare" /\ pc = "line"
    /\ IF line
         THEN LET st == IF Truthy(ls) THEN Val(ls) ELSE DefaultStyles
              IN  /\ ls' = Some(st)
                  /\ ax' = ax \o
                       << Artist("plot", xs[1], ys[1], st[1], Label("median"), None, None),
                          Artist("plot", xs[2], ys[2], st[2], Label("1 sigma"), None, None),
                          Artist("plot", xs[3], ys[3], st[2], None, None, None),
                          Artist("plot", xs[4], ys[4], st[3], Label("2 sigma"), None, None),
                          Artist("plot", xs[5], ys[5], st[3], None, None, None) >>
         ELSE UNCHANGED <<ls, ax>>
    /\ pc' = "point"
    /\ UNCHANGED <<fn, err, ret, cmpArgs, circVars, cmpLocals>>

\* Lines 140-141: a marker at each median.
Point ==
    /\ fn = "compare" /\ pc = "point"
    /\ ax' = IF point
               THEN Append(ax, Artist("scatter", xs[1], ys[1], None, None, None, None))
               ELSE ax
    /\ pc' = "fill"
    /\ UNCHANGED <<fn, err, ret, cmpArgs, ls, circVars, cmpLocals>>

\* Lines 142-144: the two bands.  ls is whatever line 134 left: it is only
\* rebound under "if line", so it is still the argument when line is false,
\* and subscripting None, or an empty list, raises before anything is drawn.
Fill ==
    /\ fn = "compare" /\ pc = "fill"
    /\ IF ~fill
         THEN /\ pc' = "decorate" /\ UNCHANGED <<ax, err>>
       ELSE IF ls = None
         THEN /\ err' = "TypeError" /\ pc' = "raised" /\ ax' = ax
       ELSE IF Len(Val(ls)) < 3
         THEN /\ err' = "IndexError" /\ pc' = "raised" /\ ax' = ax
       ELSE /\ ax' = ax \o
                 << Artist(fill_between, w0, <<zs[2], zs[3]>>, None, None,
                           Val(ls)[2][1], "0.3"),
                    Artist(fill_between, w0, <<zs[4], zs[5]>>, None, None,
                           Val(ls)[3][1], "0.2") >>
            /\ pc' = "decorate" /\ err' = err
    /\ UNCHANGED <<fn, ret, cmpArgs, ls, circVars, cmpLocals>>

\* Lines 146-160: labels, reference lines, limits, legend, redraw.
Decorate ==
    /\ fn = "compare" /\ pc = "decorate"
    /\ ax' = ax \o Opt(deco.xlabel, "set_xlabel") \o Opt(deco.ylabel, "set_ylabel")
                \o Opt(deco.yref, "axhline") \o Opt(deco.xref, "axvline")
                \o Opt(deco.xlim, "set_xlim") \o Opt(deco.ylim, "set_ylim")
                \o (IF legend THEN <<Call("legend", None)>> ELSE << >>)
                \o <<Call("draw", None)>>
    /\ pc' = "return"
    /\ UNCHANGED <<fn, err, ret, cmpArgs, ls, circVars, cmpLocals>>

\* Line 163: return w0, zs (line 162, a comment, returned xs[0], ys[0]).
ReturnFirstRows == <<xs[1], ys[1]>>
ReturnValue == <<w0, zs>>

Return ==
    /\ fn = "compare" /\ pc = "return"
    /\ ret' = Some(ReturnValue)
    /\ pc' = "done"
    /\ UNCHANGED <<fn, err, ax, cmpArgs, ls, circVars, cmpLocals>>

----------------------------------------------------------------------------
(* circles, lines 10-84 *)

\* An argument of circles that may be a scalar, a string, a list or an array
\* carries its kind.
Scalar(v) == [kind |-> "scalar", v |-> v]
Str(v) == [kind |-> "str", v |-> v]
List(v) == [kind |-> "list", v |-> v]
Array(v) == [kind |-> "array", v |-> v]

\* np.isscalar(a); isinstance(a, basestring), a builtin of Python 2, the
\* language of this module.
isscalar(a) == a.kind \in {"scalar", "str"}
isstring(a) == a.kind = "str"

\* np.asarray(a): an array of a's elements (of a alone when a is a scalar).
asarray(a) ==
    IF a.kind \in {"list", "array"} THEN Array([k \in DOMAIN a.v |-> a.v[k]])
    ELSE Array(a.v)

Min2(a, b) == IF a < b THEN a ELSE b

\* zip(a, b) and zip(a, b, r): tuples up to the shortest argument.
zip2(a, b) == [k \in 1 .. Min2(Len(a), Len(b)) |-> <<a[k], b[k]>>]
zip3(a, b, r) ==
    [k \in 1 .. Min2(Len(a), Min2(Len(b), Len(r))) |-> <<a[k], b[k], r[k]>>]

Circle(center, radius) == [center |-> center, radius |-> radius]

\* Lines 62-66: a string c is the colour of every circle; anything else
\* leaves color None.  kwargs.update(color=color) replaces a color the caller
\* passed.
ColorOf(cc) == IF isstring(cc) THEN Some(cc.v) ELSE None
Update(kw, key, value) ==
    [k \in DOMAIN kw \cup {key} |-> IF k = key THEN value ELSE kw[k]]
ResolveColor ==
    /\ fn = "circles" /\ pc = "color"
    /\ color' = ColorOf(c)
    /\ kwargs' = Update(kwargs, "color", color')
    /\ pc' = "patches"
    /\ UNCHANGED <<fn, err, ret, ax, cmpArgs, ls, cmpLocals, circArgs,
                   patches, collection>>

\* Lines 68-73: one circle for a scalar x, else one per point, s broadcast
\* when it is a scalar.
PatchesOfFirstRadius(px, py, ps_) ==
    IF isscalar(px) THEN <<Circle(<<px.v, py.v>>, ps_.v)>>
    ELSE IF isscalar(ps_)
      THEN [k \in DOMAIN zip2(px.v, py.v) |->
              Circle(<<zip2(px.v, py.v)[k][1], zip2(px.v, py.v)[k][2]>>, ps_.v)]
    ELSE [k \in DOMAIN zip3(px.v, py.v, ps_.v) |->
              Circle(<<zip3(px.v, py.v, ps_.v)[k][1], zip3(px.v, py.v, ps_.v)[k][2]>>,
                     zip3(px.v, py.v, ps_.v)[1][3])]
PatchesOf(px, py, ps_) ==
    IF isscalar(px) THEN <<Circle(<<px.v, py.v>>, ps_.v)>>
    ELSE IF isscalar(ps_)
      THEN [k \in DOMAIN zip2(px.v, py.v) |->
              Circle(<<zip2(px.v, py.v)[k][1], zip2(px.v, py.v)[k][2]>>, ps_.v)]
    ELSE [k \in DOMAIN zip3(px.v, py.v, ps_.v) |->
              Circle(<<zip3(px.v, py.v, ps_.v)[k][1], zip3(px.v, py.v, ps_.v)[k][2]>>,
                     zip3(px.v, py.v, ps_.v)[k][3])]

\* Lines 68-74: the patches and the collection that holds them.
MakePatches ==
    /\ fn = "circles" /\ pc = "patches"
    /\ patches' = PatchesOf(x, y, s)
    /\ collection' = [patches |-> patches', kwargs |-> kwargs,
                      array |-> None, clim |-> None]
    /\ pc' = "array"
    /\ UNCHANGED <<fn, err, ret, ax, cmpArgs, ls, cmpLocals, circArgs,
                   kwargs, color>>

\* Lines 76-79: without a colour string the values of c are attached for
\* colour mapping, and the limits when one of them was given.
ArrayOf(clr, cc) == IF clr = None THEN Some(asarray(cc)) ELSE None
ClimOfBoth(clr, lo, hi) ==
    IF clr = None /\ (lo # None /\ hi # None) THEN Some(<<lo, hi>>) ELSE None
ClimOf(clr, lo, hi) ==
    IF clr = None /\ (lo # None \/ hi # None) THEN Some(<<lo, hi>>) ELSE None
SetArray ==
    /\ fn = "circles" /\ pc = "array"
    /\ collection' = [collection EXCEPT !.array = ArrayOf(color, c),
                                        !.clim = ClimOf(color, vmin, vmax)]
    /\ pc' = "add"
    /\ UNCHANGED <<fn, err, ret, ax, cmpArgs, ls, cmpLocals, circArgs,
                   kwargs, color, patches>>

\* Lines 81-84: the collection goes on the surface and back to the caller.
AddCollection ==
    /\ fn = "circles" /\ pc = "add"
    /\ ax' = ax \o <<Call("add_collection", collection), Call("autoscale_view", None)>>
    /\ ret' = Some(collection)
    /\ pc' = "done"
    /\ UNCHANGED <<fn, err, cmpArgs, ls, cmpLocals, circVars>>

----------------------------------------------------------------------------
(* The calls explored *)

\* Array elements are 0 .. MaxVal and NaN.
MaxVal == 4
Vals == 0 .. MaxVal

\* Bin edges: three increasing edges whose first, interior and last edge are
\* values of the data; two edges with values below and above them; and edges
\* that are not increasing, where two bins overlap and one is empty.
Edges3 == <<0, 2, 4>>
Edges2 == <<1, 3>>
EdgesMixed == <<0, 4, 1, 3>>

\* The smallest integer that single precision cannot hold.
BigFill == F32Mantissa + 1
FillValues == {None, Some(0)}

\* The array of n elements that repeats the pattern pat.
Tile(pat, n) == [k \in 1 .. n |-> pat[((k - 1) % Len(pat)) + 1]]
Column(pairs, j) == [k \in DOMAIN pairs |-> pairs[k][j]]

\* Patterns of one or two (x, y) pairs.
Patterns(pairs) == {<<p>> : p \in pairs} \cup {<<p, q>> : p, q \in pairs}

\* Long inputs: the lengths that put a bin, or each of two bins that share
\* the points in turn, just below and at each threshold of nc.
LongLens ==
    UNION {{t - 1, t, 2 * t - 1} : t \in {NcMedian, NcInner, NcAll}}
LongPairs == {<<1, 1>>, <<1, 3>>, <<3, 3>>, <<1, NaN>>, <<NaN, 1>>, <<2, 3>>}

\* Short inputs: two points, each with equal coordinates or with one NaN.
ShortPairs ==
    {<<v, v>> : v \in Vals} \cup {<<v, NaN>> : v \in Vals}
        \cup {<<NaN, v>> : v \in Vals} \cup {<<NaN, NaN>>}

NoDeco == [xlabel |-> None, ylabel |-> None, xref |-> None, yref |-> None,
           xlim |-> None, ylim |-> None]
AllDeco == [xlabel |-> Some("x"), ylabel |-> Some("y"), xref |-> Some(1),
            yref |-> Some(2), xlim |-> Some(<<0, 4>>), ylim |-> Some(<<0, 4>>)]
RefDeco == [xlabel |-> None, ylabel |-> Some("y"), xref |-> None,
            yref |-> Some(2), xlim |-> Some(<<0, 4>>), ylim |-> None]

CustomStyles == << <<"r", "-">>, <<"m", "-", ".">>, <<"c", ":">> >>

\* The locals of compare before the body runs.
CompareEntry ==
    /\ fn = "compare" /\ pc = "select" /\ err = "none" /\ ret = None
    /\ ax = << >>
    /\ w = << >> /\ z = << >> /\ bins = << >> /\ nbins = 0 /\ zs = << >>
    /\ idx = << >> /\ i = 0 /\ zc = << >> /\ nc = 0
    /\ w0 = << >> /\ xs = << >> /\ ys = << >> /\ fill_between = "none"
    /\ sels = << >> /\ ncs = << >>
    /\ s = None /\ c = None /\ vmin = None /\ vmax = None
    /\ kwargs = << >> /\ color = None /\ patches = << >> /\ collection = None

\* The defaults of the signature, lines 86-91.
DefaultRender ==
    /\ ls = None /\ line = TRUE /\ point = TRUE /\ fill = FALSE
    /\ legend = FALSE /\ deco = NoDeco

\* compare on long data, with the default rendering.
InitLong ==
    /\ CompareEntry
    /\ \E pat \in Patterns(LongPairs), n \in LongLens :
          /\ x = Column(Tile(pat, n), 1)
          /\ y = Column(Tile(pat, n), 2)
    /\ \E b \in {<<Some(Edges3), None>>, <<None, Some(Edges3)>>,
                 <<Some(Edges3), Some(Edges2)>>} :
          xbins = b[1] /\ ybins = b[2]
    /\ nan \in FillValues
    /\ DefaultRender

\* compare on two points, with every choice of bins and the default
\* rendering.  No bin of two points gets a percentile, so the fill value can
\* be large.
InitShort ==
    /\ CompareEntry
    /\ \E p, q \in ShortPairs :
          /\ x = <<p[1], q[1]>>
          /\ y = <<p[2], q[2]>>
    /\ xbins \in {None, Some(Edges3), Some(Edges2), Some(EdgesMixed)}
    /\ ybins \in {None, Some(Edges3)}
    /\ nan \in FillValues \cup {Some(BigFill)}
    /\ DefaultRender

\* compare on fixed data with every choice of rendering.
InitRender ==
    /\ CompareEntry
    /\ x = Column(Tile(<<<<1, 1>>, <<3, 2>>, <<1, NaN>>>>, 3 * NcMedian), 1)
    /\ y = Column(Tile(<<<<1, 1>>, <<3, 2>>, <<1, NaN>>>>, 3 * NcMedian), 2)
    /\ xbins \in {None, Some(Edges3)}
    /\ ybins \in {None, Some(Edges3)}
    /\ nan \in FillValues
    /\ ls \in {None, Some(CustomStyles), Some(<< >>)}
    /\ line \in BOOLEAN /\ point \in BOOLEAN /\ fill \in BOOLEAN
    /\ legend \in BOOLEAN
    /\ deco \in {NoDeco, AllDeco, RefDeco}

InitCompare == InitLong \/ InitShort \/ InitRender

\* circles: up to MaxPoints points.
MaxPoints == 2
SeqsUpTo(S, n) == UNION {[1 .. m -> S] : m \in 0 .. n}
Ramp(n, base) == [k \in 1 .. n |-> base + k]

InitCircles ==
    /\ fn = "circles" /\ pc = "color" /\ err = "none" /\ ret = None
    /\ ax = << >>
    /\ \/ x = Scalar(1) /\ y = Scalar(2)
       \/ /\ \E v \in SeqsUpTo({0, 1}, MaxPoints) : x = Array(v)
          /\ \E m \in 0 .. MaxPoints : y = Array(Ramp(m, 10))
    /\ \/ s = Scalar(3)
       \/ \E m \in 0 .. MaxPoints : s = Array(Ramp(m, 20))
    /\ \/ c \in {Str("b"), Str("red")}
       \/ \E m \in 0 .. MaxPoints : c = List(Ramp(m, 30))
       \/ \E m \in 1 .. MaxPoints : c = Array(Ramp(m, 40))
    /\ vmin \in {None, Some(0)}
    /\ vmax \in {None, Some(50)}
    /\ kwargs \in {<< >>, [alpha |-> "0.5"], [color |-> "r", alpha |-> "0.5"]}
    /\ color = None /\ patches = << >> /\ collection = None
    /\ xbins = None /\ ybins = None /\ nan = None /\ ls = None
    /\ line = TRUE /\ point = TRUE /\ fill = FALSE
    /\ legend = FALSE /\ deco = NoDeco
    /\ w = << >> /\ z = << >> /\ bins = << >> /\ nbins = 0 /\ zs = << >>
    /\ idx = << >> /\ i = 0 /\ zc = << >> /\ nc = 0
    /\ w0 = << >> /\ xs = << >> /\ ys = << >> /\ fill_between = "none"
    /\ sels = << >> /\ ncs = << >>

Init == InitCompare \/ InitCircles

NextCompare ==
    \/ Select
    \/ HandleNaN
    \/ BinStep
    \/ Orient
    \/ Line
    \/ Point
    \/ Fill
    \/ Decorate
    \/ Return

NextCircles ==
    \/ ResolveColor
    \/ MakePatches
    \/ SetArray
    \/ AddCollection

Next == NextCompare \/ NextCircles

SpecCompare == InitCompare /\ [][NextCompare]_vars
SpecCircles == InitCircles /\ [][NextCircles]_vars
Spec == Init /\ [][Next]_vars

----------------------------------------------------------------------------
(* Properties of compare *)

\* The bins the loop has finished, and the rows of a column that hold a
\* number.
Populated(col) == {r \in 1 .. 5 : ~isnan(zs[r][col])}
Increasing(b) == \A k \in 1 .. Len(b) - 1 : b[k] < b[k + 1]
InCompare(pcs) == fn = "compare" /\ pc \in pcs
\* The states past lines 104-109 (line 97 raises before them).
PastNaN ==
    /\ fn = "compare"
    /\ \/ pc \in {"loop", "line", "point", "fill", "decorate", "return", "done"}
       \/ pc = "raised" /\ err # "NameError"

\* C1: the rows of column i that are populated depend on nc alone: none
\* for nc < 8, the median for 8 <= nc < 20, the median and the inner pair
\* for 20 <= nc < 120, all five for nc >= 120; a column the loop has not
\* reached is unknown.
C1_RowsByCount ==
    (fn = "compare" /\ zs # << >>) =>
        \A col \in 1 .. nbins :
            IF col \in 1 .. Len(ncs)
            THEN /\ ncs[col] < 8 => Populated(col) = {}
                 /\ (8 <= ncs[col] /\ ncs[col] < 20) => Populated(col) = {1}
                 /\ (20 <= ncs[col] /\ ncs[col] < 120) => Populated(col) = {1, 2, 3}
                 /\ ncs[col] >= 120 => Populated(col) = {1, 2, 3, 4, 5}
            ELSE Populated(col) = {}

\* A returned table with one column of 120 values and one of 119.
C1_Witness ==
    /\ InCompare({"done"})
    /\ ncs = <<120, 119>>
    /\ Populated(1) = 1 .. 5 /\ Populated(2) = 1 .. 3

\* C2: an observation is selected for bin i exactly when its predictor value
\* lies strictly between the edges of the bin, and every selected one is
\* counted; with increasing edges a value on an edge or outside the edges is
\* in no bin and no observation is in two.
C2_StrictInterior ==
    PastNaN =>
        /\ \A j \in 1 .. Len(sels) :
              /\ DOMAIN sels[j] = DOMAIN w
              /\ \A k \in DOMAIN w :
                    sels[j][k] <=>
                        (w[k] # NaN /\ bins[j] < w[k] /\ w[k] < bins[j + 1])
              /\ ncs[j] = Cardinality({k \in DOMAIN w : sels[j][k]})
        /\ Increasing(bins) =>
              \A k \in DOMAIN w :
                 /\ (w[k] \in Range(bins) \/ w[k] < bins[1] \/ w[k] > bins[Len(bins)])
                       => \A j \in 1 .. Len(sels) : ~sels[j][k]
                 /\ Cardinality({j \in 1 .. Len(sels) : sels[j][k]}) <= 1

\* Two points over the edges 0, 2, 4: one on the interior edge, in no bin,
\* and one inside the first bin.
C2_Witness ==
    /\ InCompare({"done"})
    /\ bins = <<0, 2, 4>>
    /\ w = <<2, 1>>
    /\ sels = <<<<FALSE, TRUE>>, <<FALSE, FALSE>>>>

\* The smallest and the largest element of a that is not NaN.
NanMin(a) ==
    CHOOSE v \in Range(a) \ {NaN} : \A u \in Range(a) \ {NaN} : v <= u
NanMax(a) ==
    CHOOSE v \in Range(a) \ {NaN} : \A u \in Range(a) \ {NaN} : v >= u

\* C3: with neither xbins nor ybins the call ends without an error, x is the
\* predictor and y the value variable, and the bins are the 11 equally
\* spaced edges from the smallest to the largest x that is not NaN, so the
\* table has 10 columns.
C3_DefaultBins ==
    (fn = "compare" /\ xbins = None /\ ybins = None) =>
        /\ err = "none"
        /\ pc # "select" =>
              /\ nbins = 10 /\ Len(bins) = 11
              /\ \A k \in 1 .. 11 :
                    10 * bins[k] = 10 * NanMin(x) + (k - 1) * (NanMax(x) - NanMin(x))
              /\ \A r \in 1 .. 5 : Len(zs[r]) = 10
              /\ pc = "nan" => (w = x /\ z = y)

\* The pair compare returns in units of the model: midpoints in halves.
IsMidpoints(m) ==
    /\ Len(m) = Len(bins) - 1
    /\ \A k \in 1 .. Len(m) : m[k] = bins[k] + bins[k + 1]
IsTable(tb) ==
    /\ tb = zs
    /\ Len(tb) = 5
    /\ \A r \in 1 .. 5 : Len(tb[r]) = Len(bins) - 1

\* C4 as stated: the midpoints come first when x is the predictor, and the
\* table comes first when y is.
C4_ReturnFollowsSwap ==
    InCompare({"done"}) =>
        /\ ret # None
        /\ IF xbins # None
             THEN IsMidpoints(Val(ret)[1]) /\ IsTable(Val(ret)[2])
             ELSE IsTable(Val(ret)[1]) /\ IsMidpoints(Val(ret)[2])

\* C4, amended: whenever compare returns, the first element is the
\* midpoints of the bins and the second the 5 x nbins table, whichever
\* variable is the predictor; only the drawing is swapped.
C4_ReturnMidpointsFirst ==
    InCompare({"done"}) =>
        /\ ret # None
        /\ IsMidpoints(Val(ret)[1]) /\ IsTable(Val(ret)[2])
        /\ xbins = None =>
              (fill_between = "fill_betweenx" /\ xs = zs /\ ys[1] = Val(ret)[1])

\* compare returned with y as the predictor over the edges 0, 2, 4: the
\* first element is the midpoints 1 and 3.
C4_Witness ==
    /\ InCompare({"done"})
    /\ xbins = None /\ ybins = Some(<<0, 2, 4>>)
    /\ Val(ret)[1] = <<2, 6>>
    /\ Val(ret)[2] = zs /\ Len(zs) = 5

\* The arguments that play z and w.
ValueArg == IF xbins # None THEN y ELSE x
PredictorArg == IF xbins # None THEN x ELSE y
Kept(k) == Cardinality({m \in 1 .. k : ~isnan(ValueArg[m])})
Inside(v, j) == v # NaN /\ bins[j] < v /\ v < bins[j + 1]

\* C5: without a fill value every index whose value is NaN is removed from z
\* and from w, so such a pair is counted in no bin, and the k-th pair that
\* remains is the k-th pair of the arguments whose value is a number.
C5_NaNDroppedInPairs ==
    (PastNaN /\ nan = None) =>
        /\ Len(z) = Kept(Len(ValueArg)) /\ Len(w) = Len(z)
        /\ \A k \in DOMAIN ValueArg :
              ~isnan(ValueArg[k]) =>
                  (z[Kept(k)] = ValueArg[k] /\ w[Kept(k)] = PredictorArg[k])
        /\ \A j \in 1 .. Len(ncs) :
              ncs[j] = Cardinality({k \in DOMAIN ValueArg :
                          ~isnan(ValueArg[k]) /\ Inside(PredictorArg[k], j)})

\* Two points, the first with a NaN value and a predictor inside the first
\* bin, the second a number: the first is dropped and counted nowhere.
C5_Witness ==
    /\ InCompare({"done"}) /\ nan = None
    /\ xbins = Some(<<0, 2, 4>>)
    /\ x = <<1, 3>> /\ y = <<NaN, 3>>
    /\ w = <<3>> /\ z = <<3>>
    /\ ncs = <<0, 1>>

\* C6: with a fill value v nothing is dropped; every NaN of z becomes v and
\* is binned by its own w, so it is counted in the bin that holds w and v is
\* among the values of that bin.
C6_FillValueStored ==
    (PastNaN /\ nan # None) =>
        /\ Len(z) = Len(ValueArg) /\ w = PredictorArg
        /\ \A k \in DOMAIN ValueArg : isnan(ValueArg[k]) => z[k] = Val(nan)
        /\ \A j \in 1 .. Len(ncs) :
              ncs[j] = Cardinality({k \in DOMAIN PredictorArg :
                          Inside(PredictorArg[k], j)})
        /\ (Len(ncs) > 0 /\ pc = "loop") =>
              \A k \in DOMAIN ValueArg :
                  (isnan(ValueArg[k]) /\ Inside(PredictorArg[k], Len(ncs)))
                      => Val(nan) \in Range(zc)

\* What holds of the fill: the same with v as single precision stores it.
FillStoredAsSingle ==
    (PastNaN /\ nan # None) =>
        /\ Len(z) = Len(ValueArg) /\ w = PredictorArg
        /\ \A k \in DOMAIN ValueArg :
              isnan(ValueArg[k]) => z[k] = astype_f(Val(nan))
        /\ \A j \in 1 .. Len(ncs) :
              ncs[j] = Cardinality({k \in DOMAIN PredictorArg :
                          Inside(PredictorArg[k], j)})

\* The fills on the surface, in the order drawn.
Fills == SelectSeq(ax, LAMBDA a : a.op \in {"fill_between", "fill_betweenx"})

\* C7: fill without line and without a style list does not fail; the bands
\* are shaded with the first characters of the default styles 1 and 2, at
\* alpha 0.3 and 0.2.
C7_FillFallsBack ==
    (fn = "compare" /\ fill /\ ~line /\ ls = None) =>
        /\ err = "none"
        /\ pc \in {"decorate", "return", "done"} =>
              /\ Len(Fills) = 2
              /\ Fills[1].color = "b" /\ Fills[1].alpha = "0.3"
              /\ Fills[2].color = "g" /\ Fills[2].alpha = "0.2"

\* C8: with xbins and ybins both given, ybins is ignored: no error comes of
\* it, x is binned by xbins, the table has len(xbins)-1 columns and the
\* drawing is the normal one.  The only error left is the one the styles
\* raise, as in the same call without ybins.
C8_XbinsWins ==
    (fn = "compare" /\ xbins # None /\ ybins # None) =>
        /\ err # "NameError"
        /\ err # "none" => (pc = "raised" /\ fill /\ ~line)
        /\ pc # "select" =>
              /\ bins = Val(xbins) /\ nbins = Len(Val(xbins)) - 1
              /\ \A r \in 1 .. 5 : Len(zs[r]) = Len(Val(xbins)) - 1
        /\ pc = "nan" => (w = x /\ z = y)
        /\ pc \in {"line", "point", "fill", "decorate", "return", "done"} =>
              /\ fill_between = "fill_between"
              /\ xs = [k \in 1 .. 5 |-> Midpoints(Val(xbins))]
              /\ ys = zs

\* Both given, with edges of different lengths, and the call returned.
C8_Witness ==
    /\ InCompare({"done"})
    /\ xbins = Some(<<0, 2, 4>>) /\ ybins = Some(<<1, 3>>)
    /\ nbins = 2 /\ fill_between = "fill_between"

----------------------------------------------------------------------------
(* Properties of circles *)

InCircles(pcs) == fn = "circles" /\ pc \in pcs
Added == SelectSeq(ax, LAMBDA a : a.op = "add_collection")

\* C9: one circle per point, in input order: one circle (x, y) of radius s
\* for scalars; for x and y of one length n and a scalar s, n circles of
\* radius s; for x, y and s of one length n, circle i has radius s_i.  The
\* circles are in one collection, which is added to the surface and
\* returned.
C9_OneCirclePerPoint ==
    /\ InCircles({"array", "add", "done"}) =>
          /\ (isscalar(x) /\ isscalar(y) /\ isscalar(s)) =>
                patches = <<[center |-> <<x.v, y.v>>, radius |-> s.v]>>
          /\ (~isscalar(x) /\ ~isscalar(y) /\ isscalar(s) /\ Len(x.v) = Len(y.v)) =>
                /\ Len(patches) = Len(x.v)
                /\ \A k \in 1 .. Len(x.v) :
                      patches[k] = [center |-> <<x.v[k], y.v[k]>>, radius |-> s.v]
          /\ (~isscalar(x) /\ ~isscalar(y) /\ ~isscalar(s)
                /\ Len(x.v) = Len(y.v) /\ Len(x.v) = Len(s.v)) =>
                /\ Len(patches) = Len(x.v)
                /\ \A k \in 1 .. Len(x.v) :
                      patches[k] = [center |-> <<x.v[k], y.v[k]>>, radius |-> s.v[k]]
          /\ collection.patches = patches
    /\ InCircles({"done"}) =>
          /\ ret = Some(collection)
          /\ Len(Added) = 1 /\ Added[1].a = collection
    /\ InCircles({"color", "patches", "array", "add"}) => (ret = None /\ Added = << >>)

\* Two points with their own radii, returned.
C9_Witness ==
    /\ InCircles({"done"})
    /\ x.kind = "array" /\ y.kind = "array" /\ s.kind = "array"
    /\ x.v = <<1, 0>> /\ y.v = <<11, 12>> /\ s.v = <<21, 22>>
    /\ Len(Val(ret).patches) = 2
    /\ Val(ret).patches[2] = [center |-> <<0, 12>>, radius |-> 22]

====
